---- MODULE Spec2Model ----
(***************************************************************************)
(* Model of notify_me: the poll cycle of NotificationCog (bot.py), the     *)
(* pccg topic plugin (topics/pccg.py) and the storage it saves to.         *)
(*                                                                         *)
(* Strings are modelled by what the code does with them: a page is the     *)
(* sequence of cards parse() finds in it, a snapshot is the insertion      *)
(* ordered dict parse() builds (a sequence of items with distinct names),  *)
(* and a message is the sequence of its newline terminated lines, each     *)
(* with the number of characters it has.                                   *)
(***************************************************************************)
EXTENDS Integers, Sequences, FiniteSets, TLC

\* ------------------------------------------------------------------ bounds

\* number of subscribe / unsubscribe commands accepted in one behaviour
MaxCommands == 1

\* number of times storage.save raises in one behaviour
MaxSaveFailures == 1

\* number of items in a snapshot handed to diff() on its own
MaxItems == 2

\* number of pieces (lines, runs of text) of a message handed to send() on
\* its own
MaxPieces == 3

\* subscribers of a topic when a command is handled on its own
MaxSubscribers == 2

\* ------------------------------------------------------------ input data

\* the keys of self.topics, in the order json.load yields them
TopicOrder == <<"t1", "t2">>

TopicNames == {TopicOrder[k] : k \in 1..Len(TopicOrder)}

\* user ids; bot.get_user resolves all but "ghost" (who therefore sends no
\* command either)
Identities == {"u1", "u2", "ghost"}

Resolvable == {"u1", "u2"}

\* self.admins, the "admins" of the stored document
Admins == {"u1"}

\* len() of the strings that occur in cards: a status, a product name, a link
\* ("lb" stands for a link of 1960 characters, the others are as written)
StrLen(s) ==
  CASE s = "in stock" -> 8
    [] s = "sold out" -> 8
    [] s = "a" -> 1
    [] s = "b" -> 1
    [] s = "la" -> 2
    [] s = "lb" -> 1960
    [] OTHER -> 0

\* len(str(price)) for the prices parse() can produce (-1 is its default)
PriceLen(p) == IF p < 0 THEN 1 + (IF -p < 10 THEN 1 ELSE 2) ELSE IF p < 10 THEN 1 ELSE 2

Card(n, l, s, p) == [name |-> n, link |-> l, status |-> s, price |-> p]

\* the pages the site can serve: each the sequence of <li> cards in it
PageNone == << >>
PageA    == << Card("a", "la", "in stock", 1) >>
PageSold == << Card("a", "la", "sold out", 1) >>
PagePrice == << Card("a", "la", "in stock", 2) >>
PageAB   == << Card("a", "la", "in stock", 1), Card("b", "lb", "in stock", 1) >>

Pages == {PageNone, PageA, PageSold, PagePrice, PageAB}

\* the items and snapshots diff() is called with on its own
ItemNames == {"a", "b", "c"}

Items ==
  {Card(n, "la", s, p) : n \in ItemNames, s \in {"in stock", "sold out"}, p \in {1, 2}}

Snapshots ==
  {st \in UNION {[1..n -> Items] : n \in 0..MaxItems} :
     \A j, k \in 1..Len(st) : st[j].name = st[k].name => j = k}

\* what each topic's url can serve
PagesOf(t) == IF t = "t1" THEN {PageNone, PageA, PageAB} ELSE {PageA, PageSold, PagePrice}

\* ------------------------------------------------------- topics/pccg.py

Names(state) == {state[k].name : k \in 1..Len(state)}

Lookup(state, n) == state[CHOOSE k \in 1..Len(state) : state[k].name = n]

\* state[name] = item on an insertion ordered dict
DictPut(state, item) ==
  IF item.name \in Names(state)
    THEN [k \in 1..Len(state) |-> IF state[k].name = item.name THEN item ELSE state[k]]
    ELSE Append(state, item)

RECURSIVE ParseCards(_, _)
ParseCards(cards, state) ==
  IF cards = << >> THEN state
  ELSE ParseCards(Tail(cards), DictPut(state, Head(cards)))

\* a variant of parse() that returns the empty dict
ParseNeverRaises(page) == FALSE

\* parse(): the dict of the cards; raises when it is empty
ParseRaises(page) == Len(ParseCards(page, << >>)) = 0

parse(page) == ParseCards(page, << >>)

\* a variant of diff() that puts the old item first in a changed pair
diffOldFirst(old_state, new_state) ==
  [ new     |-> SelectSeq(new_state, LAMBDA it : it.name \notin Names(old_state)),
    changed |-> LET both == SelectSeq(new_state,
                      LAMBDA it : /\ it.name \in Names(old_state)
                                  /\ it.status # Lookup(old_state, it.name).status)
                IN  [k \in 1..Len(both) |-> << Lookup(old_state, both[k].name), both[k] >>],
    removed |-> SelectSeq(old_state, LAMBDA it : it.name \notin Names(new_state)) ]

\* a variant of diff() that compares the whole item, not its status
diffAnyField(old_state, new_state) ==
  [ new     |-> SelectSeq(new_state, LAMBDA it : it.name \notin Names(old_state)),
    changed |-> LET both == SelectSeq(new_state,
                      LAMBDA it : /\ it.name \in Names(old_state)
                                  /\ it # Lookup(old_state, it.name))
                IN  [k \in 1..Len(both) |-> << both[k], Lookup(old_state, both[k].name) >>],
    removed |-> SelectSeq(old_state, LAMBDA it : it.name \notin Names(new_state)) ]

\* diff(): the three lists, in dict order
diff(old_state, new_state) ==
  [ new     |-> SelectSeq(new_state, LAMBDA it : it.name \notin Names(old_state)),
    changed |-> LET both == SelectSeq(new_state,
                      LAMBDA it : /\ it.name \in Names(old_state)
                                  /\ it.status # Lookup(old_state, it.name).status)
                IN  [k \in 1..Len(both) |-> << both[k], Lookup(old_state, both[k].name) >>],
    removed |-> SelectSeq(old_state, LAMBDA it : it.name \notin Names(new_state)) ]

DiffEmpty(d) == d.new = << >> /\ d.changed = << >> /\ d.removed = << >>

\* one line of a message: what it says and len() of it, newline included
Line(kind, a, b, price, ref, n) ==
  [kind |-> kind, a |-> a, b |-> b, price |-> price, ref |-> ref, len |-> n]

HeaderLines == << Line("header", "", "", 0, "", 25), Line("blank", "", "", 0, "", 1) >>

BlankLine == Line("blank", "", "", 0, "", 1)

ChangedLine(pair) ==
  Line("changed", pair[2].status, pair[1].status, pair[1].price, pair[1].link,
       StrLen(pair[2].status) + StrLen(pair[1].status) + PriceLen(pair[1].price)
         + StrLen(pair[1].link) + 12)

NewLine(gpu) ==
  Line("new", gpu.status, "", gpu.price, gpu.link,
       StrLen(gpu.status) + PriceLen(gpu.price) + StrLen(gpu.link) + 20)

RemovedLine(gpu) ==
  Line("removed", gpu.status, "", 0, gpu.name,
       StrLen(gpu.status) + StrLen(gpu.name) + 22)

\* generate_diff_message(): header, then the changed, new and removed sections
generate_diff_message(d) ==
  HeaderLines
    \o (IF Len(d.changed) > 0
          THEN [k \in 1..Len(d.changed) |-> ChangedLine(d.changed[k])] \o << BlankLine >>
          ELSE << >>)
    \o (IF Len(d.new) > 0
          THEN [k \in 1..Len(d.new) |-> NewLine(d.new[k])] \o << BlankLine >>
          ELSE << >>)
    \o [k \in 1..Len(d.removed) |-> RemovedLine(d.removed[k])]

\* a variant of generate_diff_message without its check
RenderNeverRaises(d) == FALSE

\* generate_diff_message raises ValueError: none of the three lists has an
\* element
RenderRaises(d) ==
  ~(Len(d.changed) > 0 \/ Len(d.new) > 0 \/ Len(d.removed) > 0)

\* how run() ends for a topic with last_state, once query() got status and page
Outcome(kind, message, new_state) ==
  [kind |-> kind, message |-> message, new_state |-> new_state]

run(last_state, status, page) ==
  IF status # 200 THEN Outcome("QueryError", << >>, << >>)
  ELSE IF ParseRaises(page) THEN Outcome("Exception", << >>, << >>)
  ELSE LET new_state == parse(page)
           d         == diff(last_state, new_state)
       IN  IF DiffEmpty(d) THEN Outcome("None", << >>, << >>)
           ELSE IF RenderRaises(d) THEN Outcome("ValueError", << >>, << >>)
           ELSE Outcome("message", generate_diff_message(d), new_state)

\* ------------------------------------------------------- bot.py: send()

\* Discord's message size limit, the literal 2000 of send()
ChunkLimit == 2000

RECURSIVE MsgLen(_)
MsgLen(message) == IF message = << >> THEN 0 ELSE Head(message).len + MsgLen(Tail(message))

\* offsets of the "\n" characters of message: every piece ends with one
\* but a run of text
NewlineAt(message) ==
  {MsgLen(SubSeq(message, 1, k)) - 1 :
     k \in {j \in 1..Len(message) : message[j].kind # "text"}}

Min(a, b) == IF a < b THEN a ELSE b

SetMax(S) == CHOOSE x \in S : \A y \in S : y <= x

\* a variant of the while loop of send() that slices one character more
NextChunkWide(message, offset) ==
  LET hi     == Min(offset + ChunkLimit + 1, MsgLen(message))
      inside == {p \in NewlineAt(message) : offset <= p /\ p < hi}
      length == IF inside = {} THEN -1 ELSE (hi - 1) - SetMax(inside)
  IN  [from |-> offset,
       to   |-> Min(hi, offset + (ChunkLimit + 1 - length)),
       next |-> offset + (ChunkLimit + 1 - length)]

\* a variant of the while loop of send() that moves the offset on by 2000
\* whatever it cut off the chunk
NextChunkFixedStep(message, offset) ==
  LET hi     == Min(offset + ChunkLimit, MsgLen(message))
      inside == {p \in NewlineAt(message) : offset <= p /\ p < hi}
      length == IF inside = {} THEN -1 ELSE (hi - 1) - SetMax(inside)
  IN  [from |-> offset,
       to   |-> Min(hi, offset + (ChunkLimit - length)),
       next |-> offset + ChunkLimit]

\* one turn of the while loop of send() at offset: the chunk it hands to
\* messageable.send (message[from:to]) and the offset it continues at
NextChunk(message, offset) ==
  LET hi     == Min(offset + ChunkLimit, MsgLen(message))
      inside == {p \in NewlineAt(message) : offset <= p /\ p < hi}
      length == IF inside = {} THEN -1 ELSE (hi - 1) - SetMax(inside)
  IN  [from |-> offset,
       to   |-> Min(hi, offset + (ChunkLimit - length)),
       next |-> offset + (ChunkLimit - length)]

\* the messages send() is called with on its own: up to MaxPieces pieces,
\* each a line of n characters with its newline or n characters without one
PlainLine(n) == Line("line", "", "", 0, "", n)

Text(n) == Line("text", "", "", 0, "", n)

Pieces ==
  {PlainLine(n) : n \in {1, 1000, 2000}} \cup {Text(n) : n \in {1, 1000, 2001}}

Messages == UNION {[1..n -> Pieces] : n \in 0..MaxPieces}

\* the "type" values of a stored document: the topic module bot.py imports,
\* another module among its globals, and a name that is not among them
TopicTypes == {"pccg", "asyncio", "nosuch"}

\* the names globals()[topic_type] finds
Globals == {"pccg", "asyncio"}

\* hasattr(globals()[topic_type], "run")
HasRun(topic_type) == topic_type \in {"pccg", "asyncio"}

\* hasattr(globals()[topic_type], "current_state")
HasCurrentState(topic_type) == topic_type = "pccg"

\* ---------------------------------------------------------------- state

\* the coroutines of poll_for_changes that can exist at once: the one the
\* loop runs and one more firing of it
Invocations == {1, 2}

VARIABLES
  topics,                  \* self.topics: name -> [last_state, subscribers]; << >> is None
  storage,                 \* the "topics" of the document storage holds
  suppress_notifications,  \* self.suppress_notifications
  query_running,           \* self.query_running
  started,                 \* poll_for_changes.start() has launched the loop
  pc,                      \* where each invocation of poll_for_changes is suspended
  loc,                     \* its local variables
  ncmds,                   \* commands accepted so far
  nfail,                   \* saves that have failed so far
  watch,                   \* what the history is kept of: a topic, or the firings
  h,                       \* history of the cycle that is running
  last,                    \* history: how the latest run of topic watch ended
  calc                     \* a call of a function on its own: arguments and result

vars == << topics, storage, suppress_notifications, query_running,
           started, pc, loc, ncmds, nfail, watch, h, last, calc >>

Range(seq) == {seq[k] : k \in 1..Len(seq)}

TopicIndex(t) == CHOOSE k \in 1..Len(TopicOrder) : TopicOrder[k] = t

\* the state file the bot is deployed with
InitialTopics ==
  [t \in TopicNames |->
     [type        |-> "pccg",
      last_state  |-> parse(PageA),
      subscribers |-> IF t = "t1" THEN <<"u1", "ghost", "u2">> ELSE <<"u2">>]]

IdleLoc ==
  [idx |-> 0, old |-> << >>, new_state |-> << >>, message |-> << >>,
   subs |-> << >>, alias |-> FALSE, pos |-> 0, offset |-> 0]

NoHistory ==
  [pre_mem |-> << >>, pre_sto |-> << >>, got |-> {}, atstart |-> {}, refused |-> "none"]

\* history: how the latest run of topic watch ended; after tells of a run
\* that found no change whether the run before it committed the same snapshot
Ended(snap, msg, result, got) ==
  [snap |-> snap, msg |-> msg, result |-> result, got |-> got,
   after |-> IF result = "empty" /\ last.snap = snap /\ last.result = "committed"
              THEN "committed" ELSE "none"]

NotRun == Ended(<< >>, << >>, "none", {})

\* no function is called on its own
NoCalc == [op |-> "none"]

Init ==
  /\ topics = << >>
  /\ storage = InitialTopics
  /\ suppress_notifications \in BOOLEAN
  /\ query_running = FALSE
  /\ started = FALSE
  /\ pc = [i \in Invocations |-> "idle"]
  /\ loc = [i \in Invocations |-> IdleLoc]
  /\ ncmds = 0
  /\ nfail = 0
  /\ watch \in TopicNames \cup {"firings"}
  /\ h = NoHistory
  /\ last = NotRun
  /\ calc = NoCalc

\* the topic an invocation is at
Topic(i) == TopicOrder[loc[i].idx]

\* the list object the for loop over subscribers iterates: the one in
\* self.topics while no one has rebound it, else the object as it was left
IterList(l) ==
  IF l.alias THEN topics[TopicOrder[l.idx]].subscribers ELSE l.subs

\* ------------------------------------------------- poll_for_changes

\* the cycle is over: query_running = False and the coroutine returns
Return(i, lst) ==
  /\ pc' = [pc EXCEPT ![i] = "idle"]
  /\ loc' = [loc EXCEPT ![i] = IdleLoc]
  /\ query_running' = FALSE
  /\ last' = lst

\* a variant of the except clause that leaves query_running set
ExceptKeepsRunning(i, k, lst) ==
  /\ pc' = [pc EXCEPT ![i] = "idle"]
  /\ loc' = [loc EXCEPT ![i] = IdleLoc]
  /\ query_running' = TRUE
  /\ last' = lst

\* except Exception: the topics after topic k are not run in this cycle
ExceptReturn(i, k, lst) ==
  Return(i, IF watch \in TopicNames /\ TopicIndex(watch) > k THEN NotRun ELSE lst)

\* history: the run of topic k ended as rec
Note(k, rec) == IF TopicOrder[k] = watch THEN rec ELSE last

\* getattr(globals()[topic_type], "run") raises KeyError or AttributeError
GetRunRaises(topic_type) == topic_type \notin Globals \/ ~HasRun(topic_type)

\* the next turn of "for name in self.topics": await run(name, self.topics[name])
EnterTopic(i, k, tp, lst) ==
  IF k > Len(TopicOrder)
    THEN Return(i, lst)
  ELSE IF GetRunRaises(tp[TopicOrder[k]].type)
    THEN ExceptReturn(i, k, Note(k, Ended(<< >>, << >>, "error", {})))
    ELSE /\ pc' = [pc EXCEPT ![i] = "query"]
         /\ loc' = [loc EXCEPT ![i] =
                      [IdleLoc EXCEPT !.idx = k, !.old = tp[TopicOrder[k]].last_state]]
         /\ query_running' = TRUE
         /\ last' = lst

\* an exception inside the try block while topic l.idx is being run
Raise(i, l, result, got) ==
  /\ ExceptReturn(i, l.idx, Note(l.idx, Ended(l.new_state, l.message, result, got)))
  /\ h' = NoHistory
  /\ UNCHANGED << topics, storage, nfail >>

\* what storage.save can do: return with the document written, or raise with
\* the stored document as it was
SaveOutcomes == IF nfail < MaxSaveFailures THEN {TRUE, FALSE} ELSE {TRUE}

\* a variant of the commit that saves without the assignment
Unassigned(l) == topics

\* self.topics[name]["last_state"] = new_state
Assigned(l) == [topics EXCEPT ![TopicOrder[l.idx]].last_state = l.new_state]

\* the commit: the assignment, self.save(), then the next topic
Commit(i, l, hh) ==
  LET tp == Assigned(l)
  IN  /\ topics' = tp
      /\ \E saved \in SaveOutcomes :
           IF saved
             THEN /\ storage' = tp
                  /\ nfail' = nfail
                  /\ EnterTopic(i, l.idx + 1, tp,
                       Note(l.idx, Ended(l.new_state, l.message, "committed", hh.got)))
                  /\ h' = IF l.idx + 1 > Len(TopicOrder) THEN NoHistory
                          ELSE [hh EXCEPT !.got = {}, !.atstart = {}]
             ELSE /\ storage' = storage
                  /\ nfail' = nfail + 1
                  /\ ExceptReturn(i, l.idx,
                       Note(l.idx, Ended(l.new_state, l.message, "savefail", {})))
                  /\ h' = NoHistory

\* self.notify_admins(...) in the subscribers loop: the admins a send is
\* awaited for. The call is not awaited, so the coroutine object it returns
\* is dropped and the body of notify_admins never runs
notify_admins(subscriber_id) == {}

\* a variant of the subscribers loop that ends at the first subscriber it
\* cannot resolve
SendableUntilUnresolved(l, from) ==
  {p \in from..Len(IterList(l)) :
     /\ ~suppress_notifications
     /\ \A q \in from..p : IterList(l)[q] \in Resolvable}

\* a variant of the subscribers loop without the test of
\* suppress_notifications
SendableDespiteSuppression(l, from) ==
  {p \in from..Len(IterList(l)) : IterList(l)[p] \in Resolvable}

\* the subscribers the loop still sends to, from position from on: suppressed
\* and unresolvable ones are passed over
Sendable(l, from) ==
  {p \in from..Len(IterList(l)) :
     ~suppress_notifications /\ IterList(l)[p] \in Resolvable}

\* the for loop over the subscribers from position from on, up to its next
\* await (the first chunk of the next subscriber) or through the commit
Deliver(i, l, from, hh) ==
  IF Sendable(l, from) = {}
    THEN Commit(i, l, hh)
    ELSE /\ pc' = [pc EXCEPT ![i] = "send"]
         /\ loc' = [loc EXCEPT ![i] =
                      [l EXCEPT !.pos = CHOOSE p \in Sendable(l, from) :
                                          \A q \in Sendable(l, from) : p <= q,
                                !.offset = 0]]
         /\ h' = hh
         /\ UNCHANGED << topics, storage, nfail, query_running, last >>

\* history: a firing found a cycle running
Refused(what) == IF watch = "firings" THEN [h EXCEPT !.refused = what] ELSE h

\* a variant of poll_for_changes without its guard
NeverRunning == FALSE

\* the guard at the top of poll_for_changes
AlreadyRunning == query_running

\* the timer (or a second start) calls poll_for_changes
poll_for_changes(i) ==
  /\ started
  /\ pc[i] = "idle"
  /\ \A j \in Invocations : j < i => pc[j] # "idle"
  /\ IF AlreadyRunning
       THEN /\ h' = Refused("poll")
            /\ UNCHANGED << topics, storage, query_running, pc, loc, last >>
       ELSE /\ EnterTopic(i, 1, topics, last)
            /\ h' = IF watch \in TopicNames
                      THEN [NoHistory EXCEPT !.pre_mem = topics[watch].last_state,
                                             !.pre_sto = storage[watch].last_state]
                      ELSE NoHistory
            /\ UNCHANGED << topics, storage >>
  /\ UNCHANGED << suppress_notifications, started, ncmds, nfail, watch, calc >>

\* run() raises: query() got a status other than 200, or parse() found no item
RunRaises(i) ==
  /\ pc[i] = "query"
  /\ \E status \in {200, 500}, page \in PagesOf(Topic(i)) :
       status # 200 \/ ParseRaises(page)
  /\ Raise(i, loc[i], "error", {})
  /\ UNCHANGED << suppress_notifications, started, ncmds, watch, calc >>

\* run() returns (None, new_state): the diff is empty, "if message" is false
RunEmpty(i, page) ==
  /\ pc[i] = "query"
  /\ ~ParseRaises(page)
  /\ LET l         == loc[i]
         new_state == parse(page)
     IN  /\ DiffEmpty(diff(l.old, new_state))
         /\ EnterTopic(i, l.idx + 1, topics,
              Note(l.idx, Ended(new_state, << >>, "empty", {})))
         /\ h' = IF l.idx + 1 > Len(TopicOrder) THEN NoHistory ELSE h
  /\ UNCHANGED << topics, storage, nfail >>
  /\ UNCHANGED << suppress_notifications, started, ncmds, watch, calc >>

\* run() returns (message, new_state); back in poll_for_changes the
\* subscribers loop runs up to its first await
RunMessage(i, page) ==
  /\ pc[i] = "query"
  /\ ~ParseRaises(page)
  /\ LET l         == loc[i]
         new_state == parse(page)
         d         == diff(l.old, new_state)
     IN  /\ ~DiffEmpty(d)
         /\ Deliver(i,
              [l EXCEPT !.new_state = new_state,
                        !.message = generate_diff_message(d),
                        !.alias = TRUE],
              1,
              [h EXCEPT !.got = {},
                        !.atstart = Range(topics[Topic(i)].subscribers)])
  /\ UNCHANGED << suppress_notifications, started, ncmds, watch, calc >>

\* await run(name, self.topics[name]) is over
run_returns(i) ==
  /\ pc[i] = "query"
  /\ \/ RunRaises(i)
     \/ \E page \in PagesOf(Topic(i)) : RunEmpty(i, page)
     \/ \E page \in PagesOf(Topic(i)) : RunMessage(i, page)

\* whether the chunk being sent is the last one of the message
LastChunk(l) == NextChunk(l.message, l.offset).next >= MsgLen(l.message)

\* a variant in which a send that raises is passed over and the subscribers
\* loop goes on
SendRaisesPassedOver(i) ==
  /\ pc[i] = "send"
  /\ Deliver(i, loc[i], loc[i].pos + 1, h)
  /\ UNCHANGED << suppress_notifications, started, ncmds, watch, calc >>

\* await messageable.send(chunk) raises
SendRaises(i) ==
  /\ pc[i] = "send"
  /\ Raise(i, loc[i], "sendfail", h.got)
  /\ UNCHANGED << suppress_notifications, started, ncmds, watch, calc >>

\* await messageable.send(chunk) returns
SendDone(i) ==
  /\ pc[i] = "send"
  /\ pc' = [pc EXCEPT ![i] = "edit"]
  /\ h' = IF LastChunk(loc[i])
            THEN [h EXCEPT !.got = @ \cup {IterList(loc[i])[loc[i].pos]}]
            ELSE h
  /\ UNCHANGED << topics, storage, nfail, query_running, loc, last >>
  /\ UNCHANGED << suppress_notifications, started, ncmds, watch, calc >>

send_returns(i) == SendRaises(i) \/ SendDone(i)

\* a variant in which an edit that raises is passed over and send() goes on
\* with the next chunk
EditRaisesPassedOver(i) ==
  /\ pc[i] = "edit"
  /\ ~LastChunk(loc[i])
  /\ pc' = [pc EXCEPT ![i] = "send"]
  /\ loc' = [loc EXCEPT ![i].offset = NextChunk(loc[i].message, loc[i].offset).next]
  /\ UNCHANGED << topics, storage, nfail, query_running, h, last >>
  /\ UNCHANGED << suppress_notifications, started, ncmds, watch, calc >>

\* await sent_message.edit(suppress=True) raises
EditRaises(i) ==
  /\ pc[i] = "edit"
  /\ Raise(i, loc[i], "sendfail", h.got)
  /\ UNCHANGED << suppress_notifications, started, ncmds, watch, calc >>

\* await sent_message.edit(suppress=True) returns; the while loop of send()
\* goes on with the next chunk
EditNextChunk(i) ==
  /\ pc[i] = "edit"
  /\ ~LastChunk(loc[i])
  /\ pc' = [pc EXCEPT ![i] = "send"]
  /\ loc' = [loc EXCEPT ![i].offset = NextChunk(loc[i].message, loc[i].offset).next]
  /\ UNCHANGED << topics, storage, nfail, query_running, h, last >>
  /\ UNCHANGED << suppress_notifications, started, ncmds, watch, calc >>

\* the edit of the last chunk returns; send() returns and the subscribers
\* loop goes on
EditDone(i) ==
  /\ pc[i] = "edit"
  /\ LastChunk(loc[i])
  /\ Deliver(i, loc[i], loc[i].pos + 1, h)
  /\ UNCHANGED << suppress_notifications, started, ncmds, watch, calc >>

edit_returns(i) == EditRaises(i) \/ EditNextChunk(i) \/ EditDone(i)

\* ------------------------------------------------------ the other handlers

\* the loop of an invocation that iterates the subscribers of topic t keeps
\* the list object it started on when self.topics gets another one
Detach(t) ==
  [i \in Invocations |->
     IF pc[i] \in {"send", "edit"} /\ loc[i].alias /\ (t = "" \/ Topic(i) = t)
       THEN [loc[i] EXCEPT !.alias = FALSE, !.subs = IterList(loc[i])]
       ELSE loc[i]]

\* a variant of on_ready without the loop over the topic types
TypeCheckSkipped(tp) == FALSE

\* the loop of on_ready over the loaded topics raises: KeyError for a type
\* that is not among the globals, ValueError for one without run or
\* current_state
TypeCheckRaises(tp) ==
  \E t \in DOMAIN tp :
    \/ tp[t].type \notin Globals
    \/ ~HasRun(tp[t].type)
    \/ ~HasCurrentState(tp[t].type)

\* on_ready: load, check the topic types, then start the loop unless a cycle
\* is running
on_ready ==
  /\ topics' = storage
  /\ loc' = Detach("")
  /\ IF TypeCheckRaises(storage)
       THEN UNCHANGED << started, h >>
       ELSE /\ started' = (started \/ ~query_running)
            /\ h' = IF query_running THEN Refused("ready") ELSE h
  /\ UNCHANGED << storage, suppress_notifications, query_running, pc, ncmds, nfail, watch, calc, last >>

\* the process dies and a new one is constructed (__init__)
Restart ==
  /\ topics # << >>
  /\ topics' = << >>
  /\ query_running' = FALSE
  /\ started' = FALSE
  /\ pc' = [i \in Invocations |-> "idle"]
  /\ loc' = [i \in Invocations |-> IdleLoc]
  /\ h' = NoHistory
  /\ UNCHANGED << storage, suppress_notifications, ncmds, nfail, watch, calc, last >>

\* a variant of a command handler that does not call self.save()
SaveSkipped(tp) ==
  /\ storage' = storage
  /\ nfail' = nfail

\* self.save()
save(tp) ==
  \E saved \in SaveOutcomes :
    /\ storage' = IF saved THEN tp ELSE storage
    /\ nfail' = IF saved THEN nfail ELSE nfail + 1

\* a variant of subscribe without its test for a subscriber who is already
\* in the list
NeverSubscribed(u, t) == FALSE

\* ctx.author.id in self.topics[topic]["subscribers"]
AlreadySubscribed(u, t) == u \in Range(topics[t].subscribers)

\* !subscribe topic, accepted
subscribe(u, t) ==
  /\ ncmds < MaxCommands
  /\ t \in DOMAIN topics
  /\ ~AlreadySubscribed(u, t)
  /\ topics' = [topics EXCEPT ![t].subscribers = Append(@, u)]
  /\ save(topics')
  /\ ncmds' = ncmds + 1
  /\ UNCHANGED << suppress_notifications, query_running, started, pc, loc, watch, calc, h, last >>

\* !unsubscribe topic, accepted
unsubscribe(u, t) ==
  /\ ncmds < MaxCommands
  /\ t \in DOMAIN topics
  /\ u \in Range(topics[t].subscribers)
  /\ topics' = [topics EXCEPT ![t].subscribers = SelectSeq(@, LAMBDA s : s # u)]
  /\ save(topics')
  /\ loc' = Detach(t)
  /\ ncmds' = ncmds + 1
  /\ UNCHANGED << suppress_notifications, query_running, started, pc, watch, calc, h, last >>

Next ==
  \/ on_ready
  \/ Restart
  \/ \E i \in Invocations : poll_for_changes(i)
  \/ \E i \in Invocations : run_returns(i)
  \/ \E i \in Invocations : send_returns(i)
  \/ \E i \in Invocations : edit_returns(i)
  \/ \E u \in Resolvable, t \in TopicNames : subscribe(u, t)
  \/ \E u \in Resolvable, t \in TopicNames : unsubscribe(u, t)

Spec == Init /\ [][Next]_vars

\* the bot is constructed on a stored document whose topics have any of the
\* types
ConfigInit ==
  /\ topics = << >>
  /\ \E ty \in [TopicNames -> TopicTypes] :
       storage = [t \in TopicNames |-> [InitialTopics[t] EXCEPT !.type = ty[t]]]
  /\ suppress_notifications = FALSE
  /\ query_running = FALSE
  /\ started = FALSE
  /\ pc = [i \in Invocations |-> "idle"]
  /\ loc = [i \in Invocations |-> IdleLoc]
  /\ ncmds = 0
  /\ nfail = 0
  /\ watch = "firings"
  /\ h = NoHistory
  /\ last = NotRun
  /\ calc = NoCalc

ConfigSpec == ConfigInit /\ [][Next]_vars

\* ------------------------------------------------ functions on their own

\* the bot is constructed and nothing of it runs
Constructed ==
  /\ topics = << >>
  /\ storage = InitialTopics
  /\ suppress_notifications = FALSE
  /\ query_running = FALSE
  /\ started = FALSE
  /\ pc = [i \in Invocations |-> "idle"]
  /\ loc = [i \in Invocations |-> IdleLoc]
  /\ ncmds = 0
  /\ nfail = 0
  /\ watch = "firings"
  /\ h = NoHistory
  /\ last = NotRun

bot == << topics, storage, suppress_notifications, query_running,
          started, pc, loc, ncmds, nfail, watch, h, last >>

\* diff(old_state, new_state) is called
DiffInit ==
  /\ Constructed
  /\ \E old_state \in Snapshots, new_state \in Snapshots :
       calc = [op |-> "diff", old_state |-> old_state, new_state |-> new_state,
               done |-> FALSE, result |-> << >>]

\* and returns
diff_returns ==
  /\ calc.op = "diff"
  /\ ~calc.done
  /\ calc' = [calc EXCEPT !.done = TRUE,
                           !.result = diff(calc.old_state, calc.new_state)]
  /\ UNCHANGED bot

DiffSpec == DiffInit /\ [][diff_returns]_vars

\* generate_diff_message(new, changed, removed) is called with the lists of a
\* diff, or run(name, config) is called and query() has returned
RenderInit ==
  /\ Constructed
  /\ \/ \E old_state \in Snapshots, new_state \in Snapshots :
          calc = [op |-> "render", d |-> diff(old_state, new_state),
                  done |-> FALSE, raised |-> FALSE, message |-> << >>]
     \/ \E last_state \in Snapshots, status \in {200, 500}, page \in Snapshots :
          calc = [op |-> "run", last_state |-> last_state, status |-> status,
                  page |-> page, done |-> FALSE,
                  result |-> Outcome("", << >>, << >>)]

\* generate_diff_message returns or raises
render_returns ==
  /\ calc.op = "render"
  /\ ~calc.done
  /\ calc' = [calc EXCEPT !.done = TRUE,
                           !.raised = RenderRaises(calc.d),
                           !.message = IF RenderRaises(calc.d) THEN << >>
                                       ELSE generate_diff_message(calc.d)]
  /\ UNCHANGED bot

\* run returns or raises
run_ends ==
  /\ calc.op = "run"
  /\ ~calc.done
  /\ calc' = [calc EXCEPT !.done = TRUE,
                           !.result = run(calc.last_state, calc.status, calc.page)]
  /\ UNCHANGED bot

RenderSpec == RenderInit /\ [][render_returns \/ run_ends]_vars

\* send(messageable, message) is called
SendInit ==
  /\ Constructed
  /\ \E message \in Messages :
       calc = [op |-> "send", message |-> message, offset |-> 0, chunks |-> << >>]

\* one turn of its while loop: the chunk is sent
send_chunk ==
  /\ calc.op = "send"
  /\ calc.offset < MsgLen(calc.message)
  /\ LET c == NextChunk(calc.message, calc.offset)
     IN  calc' = [calc EXCEPT !.offset = c.next,
                              !.chunks = Append(@, [from |-> c.from, to |-> c.to])]
  /\ UNCHANGED bot

SendSpec == SendInit /\ [][send_chunk]_vars

\* ------------------------------------------------- commands on their own

\* the id send_update compares ctx.author.id with
Privileged == "207076915935313920"

\* the subscribers lists of a stored document
SubscriberLists ==
  {l \in UNION {[1..n -> Identities \cup {Privileged}] : n \in 0..MaxSubscribers} :
     \A j \in 1..Len(l), k \in 1..Len(l) : l[j] = l[k] => j = k}

\* a variant of the check of send_update that lets everyone pass
AnyAuthor(author) == TRUE

\* ctx.author.id != 207076915935313920 is false
IsPrivileged(author) == author = Privileged

\* the bot is ready on a loaded document and !send_update message arrives
\* from author
SendUpdateInit ==
  /\ \E l1 \in SubscriberLists, l2 \in SubscriberLists :
       topics = [t \in TopicNames |->
                   [InitialTopics[t] EXCEPT !.subscribers = IF t = "t1" THEN l1 ELSE l2]]
  /\ storage = topics
  /\ suppress_notifications = FALSE
  /\ query_running = FALSE
  /\ started = TRUE
  /\ pc = [i \in Invocations |-> "idle"]
  /\ loc = [i \in Invocations |-> IdleLoc]
  /\ ncmds = 0
  /\ nfail = 0
  /\ watch = "firings"
  /\ h = NoHistory
  /\ last = NotRun
  /\ \E author \in Resolvable \cup {Privileged}, message \in {"m1", "m2"} :
       calc = [op |-> "send_update", author |-> author, message |-> message,
               before |-> topics, done |-> FALSE, raised |-> "none", sent |-> << >>]

\* send_update runs to its end: the refusal to the author, or the loop over
\* all subscribers, whose "await self.bot.get_user(subscriber_id)" raises
\* TypeError because get_user returns a User or None and not an awaitable
send_update ==
  /\ calc.op = "send_update"
  /\ ~calc.done
  /\ IF ~IsPrivileged(calc.author)
       THEN \E ok \in BOOLEAN :
              calc' = [calc EXCEPT
                         !.done = TRUE,
                         !.raised = IF ok THEN "none" ELSE "send",
                         !.sent = IF ok THEN << [to |-> calc.author, text |-> "refusal"] >>
                                  ELSE << >>]
       ELSE LET all_subscribers ==
                  UNION {Range(topics[t].subscribers) : t \in DOMAIN topics}
            IN  calc' = [calc EXCEPT
                           !.done = TRUE,
                           !.raised = IF all_subscribers = {} THEN "none" ELSE "TypeError"]
  /\ UNCHANGED bot

SendUpdateSpec == SendUpdateInit /\ [][send_update]_vars

\* a topic name that is not in the document
UnknownTopic == "t3"

\* the bot is ready on a loaded document whose subscribers lists have no id
\* twice
CommandInit ==
  /\ \E l1 \in SubscriberLists, l2 \in SubscriberLists :
       topics = [t \in TopicNames |->
                   [InitialTopics[t] EXCEPT !.subscribers = IF t = "t1" THEN l1 ELSE l2]]
  /\ storage = topics
  /\ suppress_notifications = FALSE
  /\ query_running = FALSE
  /\ started = TRUE
  /\ pc = [i \in Invocations |-> "idle"]
  /\ loc = [i \in Invocations |-> IdleLoc]
  /\ ncmds = 0
  /\ nfail = 0
  /\ watch = "firings"
  /\ h = NoHistory
  /\ last = NotRun
  /\ calc = NoCalc

\* a command is turned down: the handler awaits a reply to the author and
\* returns
Reply ==
  /\ ncmds < MaxCommands
  /\ ncmds' = ncmds + 1
  /\ UNCHANGED << topics, storage, suppress_notifications, query_running, started,
                  pc, loc, nfail, watch, h, last, calc >>

\* !subscribe topic from u, whatever the topic and the list
subscribe_command(u, t) ==
  IF t \notin DOMAIN topics THEN Reply
  ELSE IF AlreadySubscribed(u, t) THEN Reply
  ELSE subscribe(u, t)

\* !unsubscribe topic from u, whatever the topic and the list
unsubscribe_command(u, t) ==
  IF t \notin DOMAIN topics THEN Reply
  ELSE IF u \notin Range(topics[t].subscribers) THEN Reply
  ELSE unsubscribe(u, t)

CommandNext ==
  \/ \E u \in Resolvable, t \in TopicNames \cup {UnknownTopic} : subscribe_command(u, t)
  \/ \E u \in Resolvable, t \in TopicNames \cup {UnknownTopic} : unsubscribe_command(u, t)

CommandSpec == CommandInit /\ [][CommandNext]_vars

\* the state after construction, with no topic under observation
FairInit == Init /\ watch = "firings"

\* every await of a running cycle is over at some time: run(), send() and
\* edit() return or raise; the history of one topic's runs is not kept
FairSpec ==
  /\ FairInit
  /\ [][Next]_vars
  /\ \A i \in Invocations :
       /\ WF_vars(run_returns(i))
       /\ WF_vars(send_returns(i))
       /\ WF_vars(edit_returns(i))

\* the state after construction with suppression off and the history kept
\* for topic t2, whose pages differ from one another in status or in price
ObservedInit == Init /\ watch = "t2" /\ ~suppress_notifications

ObservedSpec == ObservedInit /\ [][Next]_vars

\* ---------------------------------------------------------------- claims

\* the step in which a send (or the edit after it) to a subscriber raises in
\* invocation i
DeliveryRaises(i) ==
  /\ pc[i] \in {"send", "edit"}
  /\ SendRaises(i) \/ EditRaises(i)

LastStateChanges ==
  \/ /\ topics # << >>
     /\ topics' # << >>
     /\ topics'[watch].last_state # topics[watch].last_state
  \/ storage'[watch].last_state # storage[watch].last_state

\* the step in which invocation i commits topic watch: it sets last_state to
\* the snapshot this cycle fetched, after every resolvable subscriber the
\* topic had when the loop began got every chunk
CommitStep(i) ==
  /\ pc[i] \in {"query", "edit"}
  /\ Topic(i) = watch
  /\ last'.result \in {"committed", "savefail"}
  /\ topics'[watch].last_state = last'.snap
  /\ storage'[watch].last_state \in {storage[watch].last_state, last'.snap}
  /\ pc[i] = "edit" =>
       /\ loc[i].new_state = last'.snap
       /\ (h.atstart \cap Resolvable) \subseteq h.got
  /\ pc[i] = "query" => Range(topics[watch].subscribers) \cap Resolvable = {}

\* C2: with suppression off, last_state changes (in memory, in storage) only
\* in the commit step of a cycle, only to the snapshot that cycle fetched and
\* only after every resolvable subscriber got every chunk
OnlyCommitChanges ==
  [][(watch \in TopicNames /\ ~suppress_notifications /\ LastStateChanges)
       => \E i \in Invocations : CommitStep(i)]_vars

\* invocation i goes on, in the same cycle, with the topic after the one it
\* is running
NextTopicPolled(i) ==
  /\ pc'[i] = "query"
  /\ loc'[i].idx = loc[i].idx + 1
  /\ query_running'

\* C3: when the run of a topic fails with a fetch or parse error, the topic
\* after it is still polled in the same cycle
FetchErrorIsolated ==
  [][\A i \in Invocations :
       (pc[i] = "query" /\ loc[i].idx < Len(TopicOrder) /\ RunRaises(i))
         => NextTopicPolled(i)]_vars

\* C4: when a delivery of a topic fails, the topic after it is still polled
\* in the same cycle
DeliveryErrorIsolated ==
  [][\A i \in Invocations :
       (DeliveryRaises(i) /\ loc[i].idx < Len(TopicOrder))
         => NextTopicPolled(i)]_vars

\* invocation i, back from run() with a message for topic watch, starts the
\* subscribers loop anew with the text msg: the first send goes to the first
\* resolvable subscriber the topic has now and nobody counts as served; with
\* no resolvable subscriber the topic is committed at once
DeliversAfresh(i, msg) ==
  IF pc'[i] = "send"
    THEN /\ loc'[i].message = msg
         /\ h'.got = {}
         /\ \A p \in 1..(loc'[i].pos - 1) :
              topics[watch].subscribers[p] \notin Resolvable
         /\ topics[watch].subscribers[loc'[i].pos] \in Resolvable
    ELSE /\ last'.msg = msg
         /\ Range(topics[watch].subscribers) \cap Resolvable = {}

\* C5: after a cycle in which a delivery of a topic failed, the next cycle
\* that fetches the same snapshot renders the same text and sends it again to
\* every subscriber of the topic, from the first one on
RetryRegenerates ==
  [][\A i \in Invocations : \A page \in Pages :
       ( /\ pc[i] = "query"
         /\ Topic(i) = watch
         /\ last.result = "sendfail"
         /\ ~ParseRaises(page)
         /\ parse(page) = last.snap
         /\ RunEmpty(i, page) \/ RunMessage(i, page) )
       => /\ RunMessage(i, page)
          /\ DeliversAfresh(i, last.msg)]_vars

Advances(i) ==
  /\ pc[i] \in {"query", "edit"}
  /\ Topic(i) = watch
  /\ pc'[i] # pc[i] \/ loc'[i].idx # loc[i].idx
  /\ topics' # << >>
  /\ topics'[watch].last_state # topics[watch].last_state

OneCycleAtATime ==
  /\ [](Cardinality({i \in Invocations : pc[i] # "idle"}) <= 1)
  /\ [][\A i \in Invocations :
          (query_running /\ poll_for_changes(i))
            => UNCHANGED << topics, storage, pc, loc, query_running, last >>]_vars
  /\ [][(query_running /\ on_ready)
          => /\ UNCHANGED << topics, storage, pc, query_running, last >>
             /\ \A i \in Invocations :
                  /\ loc'[i].idx = loc[i].idx
                  /\ loc'[i].pos = loc[i].pos
                  /\ loc'[i].offset = loc[i].offset]_vars

\* C9: a cycle that set query_running resets it
CycleEnds == query_running ~> ~query_running

\* a cycle whose commit could not be saved is over: the last_state it
\* assigned is in memory and not in storage, and nothing runs
IdleAfterSaveError ==
  /\ topics # << >>
  /\ \E t \in TopicNames : topics[t].last_state # storage[t].last_state
  /\ ~query_running
  /\ started
  /\ \A i \in Invocations : pc[i] = "idle"

\* the first of a set of positions
SetMin(S) == CHOOSE x \in S : \A y \in S : x <= y

\* C10: when the subscriber after the one just served cannot be resolved, the
\* loop passes it over: the next send goes to the next resolvable subscriber
\* of the list, and with none left the new last_state is assigned
SkipsUnresolvable ==
  [][\A i \in Invocations :
       ( /\ ~suppress_notifications
         /\ pc[i] = "edit"
         /\ loc[i].pos < Len(IterList(loc[i]))
         /\ IterList(loc[i])[loc[i].pos + 1] \notin Resolvable
         /\ EditDone(i) )
       => LET lst  == IterList(loc[i])
              rest == {p \in (loc[i].pos + 1)..Len(lst) : lst[p] \in Resolvable}
          IN  IF rest # {}
                THEN /\ pc'[i] = "send"
                     /\ loc'[i].pos = SetMin(rest)
                     /\ loc'[i].offset = 0
                     /\ topics' = topics
                ELSE topics'[Topic(i)].last_state = loc[i].new_state]_vars

\* topic t1 was committed with the unresolvable subscriber in its list and
\* both resolvable ones served
CommittedPastUnresolvable ==
  /\ watch = "t1"
  /\ last.result = "committed"
  /\ last.got = {"u1", "u2"}
  /\ "ghost" \in Range(topics["t1"].subscribers)
  /\ topics["t1"].last_state = last.snap

\* the step in which the subscribers loop of invocation i, after serving a
\* subscriber, comes to one it cannot resolve
PassesUnresolvable(i) ==
  /\ ~suppress_notifications
  /\ pc[i] = "edit"
  /\ loc[i].pos < Len(IterList(loc[i]))
  /\ IterList(loc[i])[loc[i].pos + 1] \notin Resolvable
  /\ EditDone(i)

\* C11: whenever a subscriber cannot be resolved during a cycle, a message
\* reporting the lookup is sent to every resolvable admin
AdminsNotified ==
  [][\A i \in Invocations :
       PassesUnresolvable(i)
         => \A a \in Admins \cap Resolvable :
              a \in notify_admins(IterList(loc[i])[loc[i].pos + 1])]_vars

\* how many entries of a list of items have the name n
CountIn(list, n) == Cardinality({k \in 1..Len(list) : list[k].name = n})

\* how many pairs of the changed list have the name n in their new item
CountChanged(list, n) == Cardinality({k \in 1..Len(list) : list[k][1].name = n})

\* C12: diff(old, new) puts every key of old and new in exactly one class:
\* added (once in new, with the new item), changed (once in changed, as the
\* pair new item, old item), removed (once in removed, with the old item) or
\* unchanged (in no list)
DiffPartitions ==
  (calc.op = "diff" /\ calc.done) =>
    LET old == calc.old_state
        new == calc.new_state
        d   == calc.result
    IN  \A n \in ItemNames :
          LET cn == CountIn(d.new, n)
              cc == CountChanged(d.changed, n)
              cr == CountIn(d.removed, n)
          IN  IF n \in Names(new) \ Names(old)
                THEN /\ << cn, cc, cr >> = << 1, 0, 0 >>
                     /\ \E k \in 1..Len(d.new) : d.new[k] = Lookup(new, n)
              ELSE IF n \in Names(old) \ Names(new)
                THEN /\ << cn, cc, cr >> = << 0, 0, 1 >>
                     /\ \E k \in 1..Len(d.removed) : d.removed[k] = Lookup(old, n)
              ELSE IF n \in Names(old) /\ Lookup(old, n).status # Lookup(new, n).status
                THEN /\ << cn, cc, cr >> = << 0, 1, 0 >>
                     /\ \E k \in 1..Len(d.changed) :
                          d.changed[k] = << Lookup(new, n), Lookup(old, n) >>
              ELSE << cn, cc, cr >> = << 0, 0, 0 >>

\* diff() returned with an entry in each of its three lists
DiffOfEveryClass ==
  /\ calc.op = "diff"
  /\ calc.done
  /\ Len(calc.result.new) = 1
  /\ Len(calc.result.changed) = 1
  /\ Len(calc.result.removed) = 1

\* C13: diff(old, new) is empty exactly when old and new have the same keys
\* and every key has the same status in both
DiffEmptyIffSameStatus ==
  (calc.op = "diff" /\ calc.done) =>
    ( DiffEmpty(calc.result)
        <=> /\ Names(calc.old_state) = Names(calc.new_state)
            /\ \A n \in Names(calc.old_state) :
                 Lookup(calc.old_state, n).status = Lookup(calc.new_state, n).status )

\* diff() returned the empty diff for snapshots that differ in a price
DiffEmptyOnPriceChange ==
  /\ calc.op = "diff"
  /\ calc.done
  /\ DiffEmpty(calc.result)
  /\ calc.old_state # << >>
  /\ \E n \in Names(calc.old_state) :
       Lookup(calc.old_state, n).price # Lookup(calc.new_state, n).price

\* C14: no chunk send() hands to messageable.send is longer than 2000
\* characters and none is empty
ChunkSizes ==
  calc.op = "send" =>
    \A k \in 1..Len(calc.chunks) :
      /\ calc.chunks[k].to - calc.chunks[k].from >= 1
      /\ calc.chunks[k].to - calc.chunks[k].from <= ChunkLimit

\* send() is through with a message of several chunks, one of them of 2000
\* characters
SentInFullChunks ==
  /\ calc.op = "send"
  /\ calc.offset >= MsgLen(calc.message)
  /\ Len(calc.chunks) >= 2
  /\ \E k \in 1..Len(calc.chunks) :
       calc.chunks[k].to - calc.chunks[k].from = ChunkLimit

\* every line of message, its newline included, has at most 2000 characters
LinesFit(message) ==
  LET nl == NewlineAt(message)
  IN  /\ \A p \in nl :
           p - (IF \E q \in nl : q < p
                  THEN SetMax({q \in nl : q < p}) ELSE -1) <= ChunkLimit
      /\ MsgLen(message) - 1 - (IF nl = {} THEN -1 ELSE SetMax(nl)) <= ChunkLimit

\* C15: for a message whose lines have at most 2000 characters, every chunk
\* but the one that ends the message ends with a newline, and a message of
\* at most 2000 characters is sent as one chunk
SplitsAtNewlines ==
  (calc.op = "send" /\ LinesFit(calc.message)) =>
    /\ \A k \in 1..Len(calc.chunks) :
         calc.chunks[k].to < MsgLen(calc.message)
           => (calc.chunks[k].to - 1) \in NewlineAt(calc.message)
    /\ MsgLen(calc.message) <= ChunkLimit => Len(calc.chunks) <= 1

\* invocation i begins the send of a chunk
BeginsChunk(i) ==
  /\ pc'[i] = "send"
  /\ pc[i] # "send" \/ loc'[i].pos # loc[i].pos \/ loc'[i].offset # loc[i].offset

\* C16: a chunk after the first of a recipient is sent only when the send and
\* the edit of the chunk before it have returned, and it is the next one of
\* the message; when the send or the edit of a chunk raises, the invocation
\* sends nothing more in that cycle, to this recipient or to a later one
ChunksInOrder ==
  [][\A i \in Invocations :
       /\ (BeginsChunk(i) /\ loc'[i].offset # 0) =>
            /\ pc[i] = "edit"
            /\ loc'[i].pos = loc[i].pos
            /\ loc'[i].message = loc[i].message
            /\ loc'[i].offset = NextChunk(loc[i].message, loc[i].offset).next
            /\ loc'[i].offset > loc[i].offset
       /\ (BeginsChunk(i) /\ loc'[i].offset = 0) =>
            \/ pc[i] = "query"
            \/ pc[i] = "edit" /\ LastChunk(loc[i]) /\ loc'[i].pos > loc[i].pos
       /\ (SendRaises(i) \/ EditRaises(i)) => pc'[i] = "idle"]_vars

\* the second chunk of a message is being sent to a subscriber and a later
\* subscriber is still to be served
SecondChunkInFlight ==
  \E i \in Invocations :
    /\ pc[i] = "send"
    /\ loc[i].offset > 0
    /\ Sendable(loc[i], loc[i].pos + 1) # {}

\* C17: generate_diff_message raises, and returns no message, when the three
\* lists of the diff are empty; run never ends with that error: for an empty
\* diff it returns (None, None)
EmptyRenderRaises ==
  /\ (calc.op = "render" /\ calc.done /\ DiffEmpty(calc.d))
       => (calc.raised /\ calc.message = << >>)
  /\ (calc.op = "run" /\ calc.done) =>
       /\ calc.result.kind # "ValueError"
       /\ ( /\ calc.status = 200
            /\ ~ParseRaises(calc.page)
            /\ DiffEmpty(diff(calc.last_state, parse(calc.page))) )
            => calc.result.kind = "None"

\* generate_diff_message was called with three empty lists and raised
RenderedEmptyDiff ==
  /\ calc.op = "render"
  /\ calc.done
  /\ DiffEmpty(calc.d)
  /\ calc.raised

\* C18: when the fetched page parses to no item, run raises: it returns no
\* message (none about removed items either) and no new state that could
\* replace last_state
ZeroItemsIsError ==
  ( /\ calc.op = "run"
    /\ calc.done
    /\ calc.status = 200
    /\ Len(parse(calc.page)) = 0 )
    => /\ calc.result.kind = "Exception"
       /\ calc.result.message = << >>
       /\ calc.result.new_state = << >>

\* run ended for a topic that has items in last_state and a page without items
RanOnPageWithoutItems ==
  /\ calc.op = "run"
  /\ calc.done
  /\ calc.status = 200
  /\ Len(parse(calc.page)) = 0
  /\ calc.last_state # << >>
  /\ calc.result.kind = "Exception"

\* a topic of the document has a type without a plugin
Unsupported(doc) ==
  \E t \in DOMAIN doc :
    doc[t].type \notin Globals \/ ~HasRun(doc[t].type) \/ ~HasCurrentState(doc[t].type)

\* C19: while the stored document has a topic whose type has no plugin, or a
\* plugin without run or current_state, the loop is not started, no cycle
\* runs and no topic is fetched
NoPollOnUnknownType ==
  Unsupported(storage) =>
    /\ ~started
    /\ ~query_running
    /\ \A i \in Invocations : pc[i] = "idle"

\* on_ready has loaded a document with such a topic and the loop is not
\* started
LoadedUnknownType ==
  /\ topics # << >>
  /\ Unsupported(topics)
  /\ ~started

\* C20: send_update from an author other than the privileged one sends the
\* message to nobody; it sends the refusal to the author and nothing else,
\* and leaves the topics and the stored document as they were
BroadcastRefused ==
  (calc.op = "send_update" /\ calc.done /\ calc.author # Privileged) =>
    /\ \A k \in 1..Len(calc.sent) :
         calc.sent[k] = [to |-> calc.author, text |-> "refusal"]
    /\ Len(calc.sent) <= 1
    /\ calc.raised \in {"none", "send"}
    /\ calc.raised = "none" => Len(calc.sent) = 1
    /\ topics = calc.before
    /\ storage = calc.before

\* a subscriber who is not the privileged author asked for a broadcast to a
\* topic with other subscribers and got the refusal
RefusedWithSubscribers ==
  /\ calc.op = "send_update"
  /\ calc.done
  /\ calc.author # Privileged
  /\ calc.sent = << [to |-> calc.author, text |-> "refusal"] >>
  /\ \E t \in DOMAIN topics :
       \E k \in 1..Len(topics[t].subscribers) :
         topics[t].subscribers[k] # calc.author

\* the step in which the save of the commit of topic watch raises in
\* invocation i
CommitSaveRaises(i) ==
  /\ pc[i] \in {"query", "edit"}
  /\ pc'[i] = "idle"
  /\ Topic(i) = watch
  /\ last'.result = "savefail"

\* C27: when the save of a topic's commit raises, the last_state of the topic
\* in memory is what it was before, and equal to the stored one
SaveFailureRollsBack ==
  [][\A i \in Invocations :
       CommitSaveRaises(i) =>
         /\ topics'[watch].last_state = topics[watch].last_state
         /\ topics'[watch].last_state = storage'[watch].last_state]_vars

\* C28: with suppress_notifications set no invocation ever sends a chunk, and
\* the step in which run() returns a message goes through the subscribers
\* loop without a send, assigns the fetched snapshot to last_state and calls
\* save, which writes the whole document or raises
SuppressedCommits ==
  [][suppress_notifications =>
       /\ \A i \in Invocations : pc'[i] \notin {"send", "edit"}
       /\ \A i \in {j \in Invocations : pc[j] = "query"} :
            \A page \in PagesOf(Topic(i)) :
              RunMessage(i, page) =>
                /\ topics'[Topic(i)].last_state = parse(page)
                /\ \/ storage' = topics'
                   \/ storage' = storage /\ nfail' = nfail + 1]_vars

\* with suppression on, a cycle committed a change of topic watch, which has
\* resolvable subscribers, without a send, and the cycle after it fetched the
\* same snapshot and found nothing to send
SuppressedThenEmpty ==
  /\ suppress_notifications
  /\ watch \in TopicNames
  /\ last.result = "empty"
  /\ last.after = "committed"
  /\ topics # << >>
  /\ Range(topics[watch].subscribers) \cap Resolvable # {}
  /\ topics[watch].last_state = last.snap
  /\ storage[watch].last_state = last.snap

\* the snapshots have the same names and the same status for every name
SameStatuses(old_state, new_state) ==
  /\ Names(old_state) = Names(new_state)
  /\ \A n \in Names(old_state) :
       Lookup(old_state, n).status = Lookup(new_state, n).status

\* C23: when run() ends for a topic whose fetched snapshot has the names and
\* statuses of its last_state, whatever the prices, the step sends nothing and
\* saves nothing, and the documents in memory and in storage stay as they are
EmptyDiffKeepsState ==
  [][\A i \in {j \in Invocations : pc[j] = "query"} :
       \A page \in PagesOf(Topic(i)) :
         ( /\ ~ParseRaises(page)
           /\ SameStatuses(loc[i].old, parse(page))
           /\ RunEmpty(i, page) \/ RunMessage(i, page) )
         => /\ UNCHANGED << topics, storage, nfail >>
            /\ pc'[i] \notin {"send", "edit"}]_vars

\* the latest run of topic watch fetched a snapshot that differs from its
\* last_state in a price only, found nothing to send, and last_state is the
\* old one in memory and in storage
PriceChangeNotStored ==
  /\ watch \in TopicNames
  /\ last.result = "empty"
  /\ topics # << >>
  /\ last.snap # topics[watch].last_state
  /\ SameStatuses(topics[watch].last_state, last.snap)
  /\ storage[watch].last_state = topics[watch].last_state
  /\ \A i \in Invocations : pc[i] = "idle"

\* the chunks sent so far are message[0:offset], piece after piece
Contiguous ==
  /\ \A k \in 1..Len(calc.chunks) :
       /\ calc.chunks[k].from = (IF k = 1 THEN 0 ELSE calc.chunks[k - 1].to)
       /\ calc.chunks[k].to > calc.chunks[k].from
  /\ calc.offset >= MsgLen(calc.message) =>
       (IF calc.chunks = << >> THEN 0 ELSE calc.chunks[Len(calc.chunks)].to)
         = MsgLen(calc.message)
  /\ calc.offset < MsgLen(calc.message) =>
       (IF calc.chunks = << >> THEN 0 ELSE calc.chunks[Len(calc.chunks)].to)
         = calc.offset

\* C25: for a message whose lines have at most 2000 characters, the chunks
\* send() hands over are, in order, consecutive pieces of the message that
\* leave out and repeat nothing and end at its end, and every turn of the
\* loop moves the offset forward
ChunksCoverMessage ==
  /\ []((calc.op = "send" /\ LinesFit(calc.message)) => Contiguous)
  /\ [][(calc.op = "send" /\ LinesFit(calc.message))
          => calc'.offset > calc.offset]_vars

\* send() is through with a message of more than 2000 characters whose lines
\* fit: it sent several chunks and the last one ends the message
SentWholeLongMessage ==
  /\ calc.op = "send"
  /\ LinesFit(calc.message)
  /\ MsgLen(calc.message) > ChunkLimit
  /\ calc.offset >= MsgLen(calc.message)
  /\ Len(calc.chunks) >= 2
  /\ calc.chunks[Len(calc.chunks)].to = MsgLen(calc.message)

\* the unsubscribe of u from topic t has been applied and saved: u, a
\* subscriber of t in the document the bot started on, is in the list of t
\* neither in memory nor in storage
Unsubscribed(u, t) ==
  /\ u \in Range(InitialTopics[t].subscribers)
  /\ u \notin Range(topics[t].subscribers)
  /\ u \notin Range(storage[t].subscribers)

\* C26: the subscribers loop of a cycle never goes on to a recipient whose
\* unsubscribe from the topic has been applied and saved
NoSendAfterUnsubscribe ==
  [][\A i \in Invocations :
       (pc[i] = "edit" /\ EditDone(i) /\ pc'[i] = "send")
         => ~Unsubscribed(IterList(loc[i])[loc'[i].pos], Topic(i))]_vars

\* C22: as long as no save has raised, the stored document is the document
\* in memory, once it is loaded, in every state in which a handler or a cycle
\* is suspended or nothing runs
StoredIsInMemory ==
  (nfail = 0 /\ topics # << >>) => storage = topics

\* no save has raised; a command was accepted and a cycle has committed a
\* topic and is suspended in the run of the next one
SavedWhileSuspended ==
  /\ nfail = 0
  /\ ncmds > 0
  /\ topics # << >>
  /\ topics # InitialTopics
  /\ \E t \in TopicNames : topics[t].last_state # InitialTopics[t].last_state
  /\ \E t \in TopicNames : topics[t].subscribers # InitialTopics[t].subscribers
  /\ \E i \in Invocations : pc[i] = "query" /\ loc[i].idx > 1

\* no id is twice in the list
NoDuplicates(l) == \A j \in 1..Len(l), k \in 1..Len(l) : l[j] = l[k] => j = k

\* the command from u about topic t is one the handler turns down
TurnedDown(u, t) ==
  \/ t \notin DOMAIN topics
  \/ u \in Range(topics[t].subscribers) /\ subscribe_command(u, t)
  \/ u \notin Range(topics[t].subscribers) /\ unsubscribe_command(u, t)

SavesKeepEverything ==
  [][(watch \in TopicNames /\ storage' # storage) =>
       /\ storage' = topics'
       /\ last'.result \in {"committed", "savefail"}
            => storage'[watch].last_state = last'.snap]_vars

====
